---------------------------- MODULE Spec2Model ----------------------------
(***************************************************************************)
(* UVM: a small stack virtual machine (src/src/main.rs), its binary codec  *)
(* and its assembly text translator (src/src/usm.rs, src/src/utils.rs).    *)
(*                                                                         *)
(* Spec       the engine of main.rs: load_from_memmory, execute and        *)
(*            execute_instruction, one action per iteration of the         *)
(*            execute loop.                                                *)
(* SpecCodec  serialize and deserialize of usm.rs applied to one           *)
(*            instruction, and deserialize to one chunk of a file.         *)
(* SpecCond   the engine of main.rs run on programs whose instructions     *)
(*            carry the conditional flag of usm.rs.                        *)
(* SpecAsm    assemble (Display of each instruction) and disassemble of    *)
(*            usm.rs applied to one program, and disassemble applied to    *)
(*            one source text.                                             *)
(* SpecLoad   a host that loads from a slice, a binary file or a text file *)
(*            (main.rs:159-259) and runs what it loaded.                   *)
(* SpecFile   a host that loads a slice, writes the program with           *)
(*            serialize_into_file and reads the file back (main.rs:171-200).*)
(***************************************************************************)
EXTENDS Integers, Sequences, FiniteSets, TLC

(***************************************************************************)
(* Bounds.  The source fixes isize/usize at 64 bits and both capacities at *)
(* 1024 (main.rs:6-7); the model keeps the same code with a narrower word  *)
(* and smaller arrays so that overflow and the capacity faults are reached.*)
(* The stack is the shorter array here, so that a program as short as the  *)
(* model's fills it; in the source a longer run under an instruction limit *)
(* (-l) does.  MaxInstLimit bounds the limit a host sets, MaxSliceLen the  *)
(* length of the programs written with every instruction; the programs     *)
(* that fill the program array use the stack instructions only.            *)
(***************************************************************************)
ISIZE_BITS == 4

VM_STACK_CAPACITY == 3

PROGRAM_INST_CAPACITY == 4

MaxInstLimit == 4

MaxSliceLen == 3

ISIZE_MAX == 2 ^ (ISIZE_BITS - 1) - 1

ISIZE_MIN == 0 - 2 ^ (ISIZE_BITS - 1)

USIZE_MAX == 2 ^ ISIZE_BITS - 1

VARIABLES
    pc,            \* "init" | "loaded" | "running" | "done"
    build,         \* "debug" (overflow checks on) | "release" (wrapping)
    stack,         \* VM.stack   : [0 .. VM_STACK_CAPACITY-1 -> Value]
    stack_size,    \* VM.stack_size
    program,       \* VM.program : [0 .. PROGRAM_INST_CAPACITY-1 -> Instruction]
    program_size,  \* VM.program_size
    inst_ptr,      \* VM.inst_ptr
    inst_limit,    \* VM.inst_limit : None or Some(l)
    inst_count,    \* execute's local inst_count
    file,          \* what the load was given: a slice, the bytes or the text of a file
    load_res,      \* what the load returned: "Ok", a Panic kind, or "panic"
    result,        \* what execute returned: "none" while it runs, "Ok", a Panic kind, or "panic"
    last,          \* history: the instruction of the last iteration and the state it started from
    pushes,        \* history: Push instructions executed
    drops,         \* history: Drop instructions executed
    within,        \* history: no Push met a full stack and no Drop an empty one
    codec,         \* the codec's run: an instruction, its 10-byte chunk, the instruction read back
    asm            \* the assembler's run: a program, its source text, the program read back

vmVars == <<pc, build, stack, stack_size, program, program_size, inst_ptr,
            inst_limit, inst_count, file, load_res, result, last, pushes, drops, within>>

vars == <<pc, build, stack, stack_size, program, program_size, inst_ptr,
          inst_limit, inst_count, file, load_res, result, last, pushes, drops, within, codec, asm>>

-----------------------------------------------------------------------------
(* Values and instructions of the engine (main.rs:32-59).                  *)

Null == [tag |-> "Null", val |-> 0]

IntV(n) == [tag |-> "Int", val |-> n]

InstructionKind == {"Nop", "Drop", "Dup", "Push", "DupAt", "JumpIf", "Jump",
                    "Eq", "Sub", "Mul", "Div", "Sum"}

Inst(kind, operand) == [kind |-> kind, operand |-> operand, conditional |-> FALSE]

NopInst == Inst("Nop", Null)

(* The Panic values execute can return, and "panic": a Rust panic, which   *)
(* unwinds out of execute and returns no Panic value.                      *)
Faults == {"StackOverflow", "StackUnderflow", "IntegerOverflow", "InvalidOperandValue",
           "IlligalInstructionOperands", "DivByZero", "InstLimitkOverflow"}

(* The engine as a record, so that the step is a function of its fields.   *)
Fault(vm, kind) == [vm EXCEPT !.err = kind]

(* x as the two's complement value of its low ISIZE_BITS bits.             *)
Wrap(x) == ((x - ISIZE_MIN) % (2 ^ ISIZE_BITS)) + ISIZE_MIN

(* isize arithmetic b + a, b - a, b * a: an overflow panics in a build     *)
(* with overflow checks and wraps in one without.                          *)
Arith(x, bld) ==
    IF x >= ISIZE_MIN /\ x <= ISIZE_MAX THEN [err |-> "Ok", val |-> x]
    ELSE IF bld = "debug" THEN [err |-> "panic", val |-> 0]
    ELSE [err |-> "Ok", val |-> Wrap(x)]

Abs(x) == IF x < 0 THEN 0 - x ELSE x

(* Rust's integer division truncates toward zero.                          *)
TruncDiv(b, a) ==
    IF (b < 0) = (a < 0) THEN Abs(b) \div Abs(a) ELSE 0 - (Abs(b) \div Abs(a))

SumOp(a, b, bld) == Arith(b + a, bld)

(* Mutant: the operands of the subtraction exchanged.                      *)
SubOp_Swapped(a, b, bld) == Arith(a - b, bld)

SubOp(a, b, bld) == Arith(b - a, bld)

MulOp(a, b, bld) == Arith(b * a, bld)

(* Mutant: division by zero reported as the overflow kind.                 *)
DivOp_ZeroAsOverflow(a, b, bld) ==
    IF a = 0 THEN [err |-> "IntegerOverflow", val |-> 0]
    ELSE IF b = ISIZE_MIN /\ a = -1 THEN [err |-> "panic", val |-> 0]
    ELSE [err |-> "Ok", val |-> TruncDiv(b, a)]

(* isize::MIN / -1 panics in every build.                                  *)
DivOp(a, b, bld) ==
    IF a = 0 THEN [err |-> "DivByZero", val |-> 0]
    ELSE IF b = ISIZE_MIN /\ a = -1 THEN [err |-> "panic", val |-> 0]
    ELSE [err |-> "Ok", val |-> TruncDiv(b, a)]

(* Mutant: the capacity test off by one.                                   *)
stack_push_OffByOne(vm, value) ==
    IF value.tag # "Int" THEN Fault(vm, "InvalidOperandValue")
    ELSE IF ~(value.val >= ISIZE_MIN /\ value.val <= ISIZE_MAX) THEN Fault(vm, "IntegerOverflow")
    ELSE IF vm.stack_size > VM_STACK_CAPACITY THEN Fault(vm, "StackOverflow")
    ELSE [vm EXCEPT !.stack_size = @ + 1]

stack_push(vm, value) ==
    IF value.tag # "Int" THEN Fault(vm, "InvalidOperandValue")
    ELSE IF ~(value.val >= ISIZE_MIN /\ value.val <= ISIZE_MAX) THEN Fault(vm, "IntegerOverflow")
    ELSE IF vm.stack_size = VM_STACK_CAPACITY THEN Fault(vm, "StackOverflow")
    ELSE [vm EXCEPT !.stack[vm.stack_size] = value, !.stack_size = @ + 1]

(* The engine after the pop, and the value popped.                         *)
stack_pop(vm) ==
    IF vm.stack_size = 0 THEN [vm |-> Fault(vm, "StackUnderflow"), val |-> Null]
    ELSE [vm  |-> [vm EXCEPT !.stack_size = @ - 1, !.stack[vm.stack_size - 1] = Null],
          val |-> vm.stack[vm.stack_size - 1]]

(* The closure execute_instruction hands to push_from for kind k.          *)
Closure(k, a, b, bld) ==
    CASE k = "Sum" -> SumOp(a, b, bld)
      [] k = "Sub" -> SubOp(a, b, bld)
      [] k = "Mul" -> MulOp(a, b, bld)
      [] k = "Div" -> DivOp(a, b, bld)

(* Mutant: the two operands are looked for before either is popped.       *)
push_from_ChecksFirst(vm, k, bld) ==
    IF vm.stack_size < 2 THEN Fault(vm, "StackUnderflow")
    ELSE LET p1 == stack_pop(vm)
             p2 == stack_pop(p1.vm)
         IN  IF p1.val.tag # "Int" \/ p2.val.tag # "Int"
             THEN Fault(p2.vm, "IlligalInstructionOperands")
             ELSE LET r == Closure(k, p1.val.val, p2.val.val, bld) IN
                  IF r.err # "Ok" THEN Fault(p2.vm, r.err)
                  ELSE stack_push(p2.vm, IntV(r.val))

push_from(vm, k, bld) ==
    LET p1 == stack_pop(vm) IN
    IF p1.vm.err # "Ok" THEN p1.vm
    ELSE LET p2 == stack_pop(p1.vm) IN
         IF p2.vm.err # "Ok" THEN p2.vm
         ELSE IF p1.val.tag # "Int" \/ p2.val.tag # "Int"
              THEN Fault(p2.vm, "IlligalInstructionOperands")
              ELSE LET r == Closure(k, p1.val.val, p2.val.val, bld) IN
                   IF r.err # "Ok" THEN Fault(p2.vm, r.err)
                   ELSE stack_push(p2.vm, IntV(r.val))

(* Mutant: Drop clears the top slot and forgets to shrink the stack.       *)
DropBody_KeepsSize(vm, bld) ==
    IF vm.stack_size = 0
    THEN IF bld = "debug" THEN Fault(vm, "panic")
         ELSE Fault([vm EXCEPT !.stack_size = USIZE_MAX], "panic")
    ELSE [vm EXCEPT !.stack[vm.stack_size - 1] = Null]

(* Drop: self.stack_size -= 1; self.stack[self.stack_size] = Null.  On an  *)
(* empty stack the subtraction panics with overflow checks; without them   *)
(* stack_size wraps to usize::MAX and the indexing panics.                 *)
DropBody(vm, bld) ==
    IF vm.stack_size = 0
    THEN IF bld = "debug" THEN Fault(vm, "panic")
         ELSE Fault([vm EXCEPT !.stack_size = USIZE_MAX], "panic")
    ELSE [vm EXCEPT !.stack_size = @ - 1, !.stack[vm.stack_size - 1] = Null]

(* DupAt pushes self.stack[addr] for 0 <= addr <= inst_ptr; indexing past  *)
(* the array panics.                                                       *)
DupAtBody(vm, inst) ==
    IF inst.operand.tag # "Int" THEN Fault(vm, "InvalidOperandValue")
    ELSE IF inst.operand.val < 0 \/ inst.operand.val > vm.inst_ptr
         THEN Fault(vm, "InvalidOperandValue")
         ELSE IF inst.operand.val >= VM_STACK_CAPACITY THEN Fault(vm, "panic")
              ELSE stack_push(vm, vm.stack[inst.operand.val])

DupBody(vm) ==
    LET p == stack_pop(vm) IN
    IF p.vm.err # "Ok" THEN p.vm
    ELSE LET q == stack_push(p.vm, p.val) IN
         IF q.err # "Ok" THEN q ELSE stack_push(q, p.val)

(* JumpIf reads self.stack[self.stack_size], the slot above the top: the   *)
(* index is out of the array when the stack is full.  A negative operand   *)
(* cast with `as usize` is its two's complement bit pattern.               *)
JumpIfBody(vm, inst) ==
    IF vm.stack_size < 1 THEN Fault(vm, "StackUnderflow")
    ELSE IF vm.stack_size >= VM_STACK_CAPACITY THEN Fault(vm, "panic")
    ELSE IF vm.stack[vm.stack_size] # Null
         THEN IF inst.operand.tag # "Int" THEN Fault(vm, "InvalidOperandValue")
              ELSE [vm EXCEPT !.inst_ptr = inst.operand.val % (USIZE_MAX + 1)]
         ELSE vm

JumpBody(vm, inst) ==
    IF inst.operand.tag # "Int" THEN Fault(vm, "InvalidOperandValue")
    ELSE IF inst.operand.val < 0 \/ inst.operand.val > vm.program_size
         THEN Fault(vm, "InvalidOperandValue")
         ELSE [vm EXCEPT !.inst_ptr = inst.operand.val]

(* Mutant: Eq pushes its result without the engine's integer tag.          *)
EqBody_PushesUint(vm) ==
    IF vm.stack_size < 2 THEN Fault(vm, "StackUnderflow")
    ELSE IF vm.stack_size = VM_STACK_CAPACITY THEN Fault(vm, "StackOverflow")
    ELSE LET a == vm.stack[vm.stack_size - 1]
             b == vm.stack[vm.stack_size - 2]
         IN  [vm EXCEPT !.stack[vm.stack_size] = [tag |-> "Uint", val |-> IF a = b THEN 1 ELSE 0],
                        !.stack_size = @ + 1]

(* Mutant: Eq pops the two elements it compares.                           *)
EqBody_Popping(vm) ==
    LET p1 == stack_pop(vm) IN
    IF p1.vm.err # "Ok" THEN p1.vm
    ELSE LET p2 == stack_pop(p1.vm) IN
         IF p2.vm.err # "Ok" THEN p2.vm
         ELSE stack_push(p2.vm, IF p1.val = p2.val THEN IntV(1) ELSE IntV(0))

EqBody(vm) ==
    IF vm.stack_size < 2 THEN Fault(vm, "StackUnderflow")
    ELSE LET a == vm.stack[vm.stack_size - 1]
             b == vm.stack[vm.stack_size - 2]
         IN  stack_push(vm, IF a = b THEN IntV(1) ELSE IntV(0))

execute_instruction(vm, bld) ==
    LET inst == vm.program[vm.inst_ptr] IN
    CASE inst.kind = "Nop"    -> vm
      [] inst.kind = "Push"   -> stack_push(vm, inst.operand)
      [] inst.kind = "Drop"   -> DropBody(vm, bld)
      [] inst.kind = "DupAt"  -> DupAtBody(vm, inst)
      [] inst.kind = "Dup"    -> DupBody(vm)
      [] inst.kind = "JumpIf" -> JumpIfBody(vm, inst)
      [] inst.kind = "Jump"   -> JumpBody(vm, inst)
      [] inst.kind = "Eq"     -> EqBody(vm)
      [] inst.kind = "Sum"    -> push_from(vm, "Sum", bld)
      [] inst.kind = "Sub"    -> push_from(vm, "Sub", bld)
      [] inst.kind = "Mul"    -> push_from(vm, "Mul", bld)
      [] inst.kind = "Div"    -> push_from(vm, "Div", bld)

-----------------------------------------------------------------------------
(* The codec of usm.rs.  Its Value (usm.rs:6-13) is Float(f64), Int(isize),*)
(* Uint(usize) or Null; a 64-bit payload is kept as its four 16-bit limbs, *)
(* least significant first (an Int in two's complement, a Float as its     *)
(* IEEE-754 bits), so that every 8-byte operand field has a value.         *)

INST_CHUNCK_SIZE == 10

LIMB == 65536

ZeroWord == <<0, 0, 0, 0>>

UNull == [tag |-> "Null", bits |-> ZeroWord]

UVal(tag, w) == [tag |-> tag, bits |-> w]

(* The 64-bit two's complement pattern of n, for |n| < 2^31.               *)
IsizeWord(n) ==
    <<n % LIMB, (n \div LIMB) % LIMB,
      IF n < 0 THEN LIMB - 1 ELSE 0, IF n < 0 THEN LIMB - 1 ELSE 0>>

(* The f64 whose top 16 bits (sign, exponent, 4 mantissa bits) are t and   *)
(* whose other mantissa bits are 0: 16368 is 1.0, 16376 is 1.5.            *)
F64Word(t) == <<0, 0, 0, t>>

(* u64/i64/f64::to_le_bytes: 8 bytes, least significant first.             *)
to_le_bytes(w) ==
    <<w[1] % 256, w[1] \div 256, w[2] % 256, w[2] \div 256,
      w[3] % 256, w[3] \div 256, w[4] % 256, w[4] \div 256>>

(* u64/i64/f64::from_le_bytes.                                             *)
from_le_bytes(b) ==
    <<b[1] + 256 * b[2], b[3] + 256 * b[4], b[5] + 256 * b[6], b[7] + 256 * b[8]>>

(* InstructionKind as u8 (usm.rs:82-97).                                   *)
UsmKinds == <<"Nop", "Push", "Dup", "Drop", "Eq", "Jump", "Sum", "Sub", "Mul", "Div", "NotEq">>

KindIdx(kind) == CHOOSE i \in 0 .. Len(UsmKinds) - 1 : UsmKinds[i + 1] = kind

(* InstructionKind::try_from_idx: the kind, or a Rust panic.               *)
try_from_idx(idx) ==
    IF idx < Len(UsmKinds) THEN [err |-> "Ok", kind |-> UsmKinds[idx + 1]]
    ELSE [err |-> "panic", kind |-> "Nop"]

has_operand(kind) == kind \in {"Push", "Dup", "Jump"}

UInst(kind, operand, conditional) ==
    [kind |-> kind, operand |-> operand, conditional |-> conditional]

serialize(inst) ==
    LET cond == IF inst.conditional THEN 1 ELSE 0
        tag  == CASE inst.operand.tag = "Float" -> 200
                  [] inst.operand.tag = "Uint"  -> 100
                  [] inst.operand.tag = "Int"   -> 10
                  [] inst.operand.tag = "Null"  -> 0
    IN  <<KindIdx(inst.kind), cond + tag>>
        \o (IF inst.operand.tag = "Null" THEN to_le_bytes(ZeroWord)
                                         ELSE to_le_bytes(inst.operand.bits))

(* Mutant: an operand byte 78 ('N') under an operand tag refused, as the   *)
(* earlier codec of instruction.rs:194-258 does.                           *)
deserialize_NullMarker(se) ==
    LET k         == try_from_idx(se[1])
        inst_opts == se[2]
        w         == from_le_bytes(SubSeq(se, 3, INST_CHUNCK_SIZE))
        n         == IF inst_opts >= 200 THEN 200
                     ELSE IF inst_opts >= 100 THEN 100 ELSE 10
        operand   == IF inst_opts >= 200 THEN UVal("Float", w)
                     ELSE IF inst_opts >= 100 THEN UVal("Int", w)
                     ELSE IF inst_opts >= 10 THEN UVal("Uint", w)
                     ELSE UNull
    IN  IF k.err = "Ok" /\ inst_opts >= 10 /\ \E i \in 3 .. INST_CHUNCK_SIZE : se[i] = 78
        THEN [err |-> "InvalidOperandValue", inst |-> UInst(k.kind, UNull, FALSE)]
        ELSE [err |-> k.err, inst |-> UInst(k.kind, operand, inst_opts % n # 0)]

deserialize(se) ==
    LET k         == try_from_idx(se[1])
        inst_opts == se[2]
        w         == from_le_bytes(SubSeq(se, 3, INST_CHUNCK_SIZE))
        n         == IF inst_opts >= 200 THEN 200
                     ELSE IF inst_opts >= 100 THEN 100 ELSE 10
        operand   == IF inst_opts >= 200 THEN UVal("Float", w)
                     ELSE IF inst_opts >= 100 THEN UVal("Int", w)
                     ELSE IF inst_opts >= 10 THEN UVal("Uint", w)
                     ELSE UNull
    IN  [err |-> k.err, inst |-> UInst(k.kind, operand, inst_opts % n # 0)]

(* The operands and instructions given to the codec.                       *)
MaxOperand == 2

IntSamples == (0 - MaxOperand) .. MaxOperand \cup {40000, 0 - 70000}

UintSamples == 0 .. MaxOperand \cup {40000, 70000}

FloatSamples == {0, 16368, 16376, 49152, 32760}

CodecOperands ==
    {UVal("Int", IsizeWord(n)) : n \in IntSamples}
    \cup {UVal("Uint", IsizeWord(n)) : n \in UintSamples}
    \cup {UVal("Float", F64Word(t)) : t \in FloatSamples}

CodecInputs ==
    {UInst(UsmKinds[i], v, c) : i \in 1 .. Len(UsmKinds), v \in CodecOperands \cup {UNull},
                                c \in BOOLEAN}

(* Operand Null exactly when the kind takes none.                          *)
WellFormed(inst) == (inst.operand.tag = "Null") = ~has_operand(inst.kind)

(* The 10-byte chunks given to deserialize as they come from a file: every *)
(* defined opcode byte and some undefined ones, byte 1 at both ends of     *)
(* each band of its tag table, and operand bytes of all zeros, all ones,   *)
(* and a pattern holding the byte 78 ('N').                                *)
OpcodeBytes == 0 .. Len(UsmKinds) - 1 \cup {Len(UsmKinds), Len(UsmKinds) + 1, 255}

Byte1Samples == {0, 1, 9, 10, 11, 99, 100, 101, 199, 200, 201, 255}

OperandBytes == {<<0, 0, 0, 0, 0, 0, 0, 0>>, <<78, 0, 0, 0, 0, 0, 0, 0>>,
                 <<255, 255, 255, 255, 255, 255, 255, 255>>}

RawChunks == {<<k, b>> \o o : k \in OpcodeBytes, b \in Byte1Samples, o \in OperandBytes}

CodecIdle == [pc |-> "idle", given |-> "none", inst |-> UInst("Nop", UNull, FALSE),
              chunk |-> <<>>, err |-> "none", out |-> UInst("Nop", UNull, FALSE)]

-----------------------------------------------------------------------------
(* Source text (utils.rs:176-216, usm.rs:16-32, 98-113, 207-330).  A text  *)
(* is a sequence of symbols: a digit, a sign, ".", "_", "?", ":", "#", a   *)
(* blank, a line end, or one of the words of the language taken whole (a   *)
(* mnemonic, a type suffix, "NaN", "inf").  The mnemonics and suffixes are *)
(* Cyrillic in the source and transliterated here.                         *)

DigitChars == <<"0", "1", "2", "3", "4", "5", "6", "7", "8", "9">>

IsDigit(c) == \E i \in 1 .. 10 : DigitChars[i] = c

DigitVal(c) == (CHOOSE i \in 1 .. 10 : DigitChars[i] = c) - 1

(* Display for InstructionKind (utils.rs:199-216), in the order of UsmKinds.*)
Mnemonics == <<"neop", "klady", "kopiju", "kyn", "rivn", "krok", "suma", "rizn", "mnozh",
               "dily", "nerivn">>

(* The value of a word that is the sign extension of a 32-bit integer.     *)
IsizeOf(w) == IF w[4] = 0 THEN w[1] + LIMB * w[2] ELSE w[1] + LIMB * (w[2] - LIMB)

UsizeOf(w) == w[1] + LIMB * w[2]

RECURSIVE Pow2(_)
Pow2(n) == IF n = 0 THEN 1 ELSE 2 * Pow2(n - 1)

RECURSIVE FmtNat(_)
FmtNat(n) == IF n < 10 THEN <<DigitChars[n + 1]>>
             ELSE FmtNat(n \div 10) \o <<DigitChars[(n % 10) + 1]>>

FmtInt(n) == IF n < 0 THEN <<"-">> \o FmtNat(0 - n) ELSE FmtNat(n)

(* "{v}" of an f64 whose low 48 bits are 0 and which is 0, NaN, infinite   *)
(* or a multiple of one half of magnitude 0.5 to 31.5: the shortest        *)
(* decimal, no ".0" on a whole number.                                     *)
FmtF64(w) ==
    LET t    == w[4]
        neg  == t \div 32768 = 1
        e    == (t % 32768) \div 16
        m    == t % 16
        sign == IF neg THEN <<"-">> ELSE <<>>
        h    == ((16 + m) * Pow2(e - 1022)) \div 16
    IN  IF e = 2047 THEN (IF m = 0 THEN sign \o <<"inf">> ELSE <<"NaN">>)
        ELSE IF e = 0 THEN sign \o <<"0">>
        ELSE sign \o FmtNat(h \div 2) \o (IF h % 2 = 1 THEN <<".", "5">> ELSE <<>>)

(* Display for Value (utils.rs:176-185).                                   *)
FmtValue(v) ==
    CASE v.tag = "Float" -> FmtF64(v.bits)
      [] v.tag = "Uint"  -> FmtNat(UsizeOf(v.bits))
      [] v.tag = "Int"   -> FmtInt(IsizeOf(v.bits))
      [] v.tag = "Null"  -> <<>>

(* Display for Instruction (utils.rs:187-197): "{kind}{cond} {oper}".      *)
FmtInstruction(inst) ==
    <<Mnemonics[KindIdx(inst.kind) + 1]>> \o (IF inst.conditional THEN <<"?">> ELSE <<>>)
        \o <<" ">> \o FmtValue(inst.operand)

(* assemble (usm.rs:321-330).                                              *)
RECURSIVE assemble(_)
assemble(source) ==
    IF source = <<>> THEN <<>>
    ELSE FmtInstruction(Head(source)) \o <<"\n">> \o assemble(Tail(source))

Contains(hay, needle) ==
    \E i \in 0 .. Len(hay) - Len(needle) : SubSeq(hay, i + 1, i + Len(needle)) = needle

HasSym(s, c) == \E i \in 1 .. Len(s) : s[i] = c

AllDigits(s) == \A i \in 1 .. Len(s) : IsDigit(s[i])

RECURSIVE NatOf(_)
NatOf(s) == IF s = <<>> THEN 0 ELSE 10 * NatOf(SubSeq(s, 1, Len(s) - 1)) + DigitVal(s[Len(s)])

(* str::parse::<isize> and ::<usize>: an optional sign ("+", and "-" for   *)
(* isize), then one digit or more.                                         *)
ParseInt(s, signed) ==
    LET sgn == s # <<>> /\ (s[1] = "+" \/ (signed /\ s[1] = "-"))
        d   == IF sgn THEN Tail(s) ELSE s
    IN  IF d # <<>> /\ AllDigits(d)
        THEN [ok |-> TRUE, n |-> IF sgn /\ s[1] = "-" THEN 0 - NatOf(d) ELSE NatOf(d)]
        ELSE [ok |-> FALSE, n |-> 0]

(* The f64 of sign neg and magnitude h halves, h < 32.                     *)
F64OfHalves(neg, h) ==
    LET s == IF neg THEN 32768 ELSE 0
        k == CHOOSE j \in 0 .. 4 : Pow2(j) <= h /\ h < Pow2(j + 1)
    IN  IF h = 0 THEN F64Word(s)
        ELSE F64Word(s + (1022 + k) * 16 + (h * Pow2(4 - k) - 16))

(* str::parse::<f64> of "NaN", "inf" and of decimals with no exponent      *)
(* whose fraction is absent, zero or one half.                             *)
ParseF64(s) ==
    LET sgn  == s # <<>> /\ s[1] \in {"+", "-"}
        neg  == sgn /\ s[1] = "-"
        d    == IF sgn THEN Tail(s) ELSE s
        dot  == IF HasSym(d, ".") THEN CHOOSE i \in 1 .. Len(d) : d[i] = "." ELSE Len(d) + 1
        ip   == SubSeq(d, 1, dot - 1)
        fp   == SubSeq(d, dot + 1, Len(d))
        half == fp # <<>> /\ fp[1] = "5"
        rest == IF fp = <<>> THEN <<>> ELSE Tail(fp)
    IN  IF d = <<"NaN">> THEN [ok |-> TRUE, bits |-> F64Word(32760)]
        ELSE IF d = <<"inf">> THEN [ok |-> TRUE, bits |-> F64Word((IF neg THEN 32768 ELSE 0) + 32752)]
        ELSE IF /\ AllDigits(ip) /\ AllDigits(fp) /\ (ip # <<>> \/ fp # <<>>)
                /\ (fp = <<>> \/ fp[1] \in {"0", "5"}) /\ \A i \in 1 .. Len(rest) : rest[i] = "0"
        THEN [ok |-> TRUE, bits |-> F64OfHalves(neg, 2 * NatOf(ip) + (IF half THEN 1 ELSE 0))]
        ELSE [ok |-> FALSE, bits |-> ZeroWord]

(* Value::try_parse (usm.rs:16-32) of a word, which holds no blank.        *)
Value_try_parse(token) ==
    LET bad  == [ok |-> FALSE, val |-> UNull]
        us   == CHOOSE i \in 0 .. Len(token) :
                    /\ i > 0 => token[i] = "_"
                    /\ \A j \in i + 1 .. Len(token) : token[j] # "_"
        val  == SubSeq(token, 1, us - 1)
        suf  == SubSeq(token, us + 1, Len(token))
        f(w) == ParseF64(w)
        i(w) == ParseInt(w, TRUE)
        u(w) == ParseInt(w, FALSE)
    IN  IF HasSym(token, ".")
        THEN (IF f(token).ok THEN [ok |-> TRUE, val |-> UVal("Float", f(token).bits)] ELSE bad)
        ELSE IF us > 0
        THEN CASE suf = <<"drob">> ->
                    (IF f(val).ok THEN [ok |-> TRUE, val |-> UVal("Float", f(val).bits)] ELSE bad)
               [] suf = <<"zcil">> ->
                    (IF i(val).ok THEN [ok |-> TRUE, val |-> UVal("Int", IsizeWord(i(val).n))] ELSE bad)
               [] suf = <<"cil">> ->
                    (IF u(val).ok THEN [ok |-> TRUE, val |-> UVal("Uint", IsizeWord(u(val).n))] ELSE bad)
               [] OTHER -> bad
        ELSE IF i(token).ok THEN [ok |-> TRUE, val |-> UVal("Int", IsizeWord(i(token).n))]
        ELSE bad

(* InstructionKind::try_parse (usm.rs:99-116).                             *)
Kind_try_parse(src) ==
    IF Len(src) = 1 /\ \E i \in 1 .. Len(Mnemonics) : Mnemonics[i] = src[1]
    THEN [ok |-> TRUE, kind |-> UsmKinds[CHOOSE i \in 1 .. Len(Mnemonics) : Mnemonics[i] = src[1]]]
    ELSE [ok |-> FALSE, kind |-> "Nop"]

(* The pieces of s between the symbols of seps.                            *)
RECURSIVE Split(_, _)
Split(s, seps) ==
    IF \A i \in 1 .. Len(s) : s[i] \notin seps THEN <<s>>
    ELSE LET i == CHOOSE j \in 1 .. Len(s) :
                      s[j] \in seps /\ \A l \in 1 .. j - 1 : s[l] \notin seps
         IN  <<SubSeq(s, 1, i - 1)>> \o Split(SubSeq(s, i + 1, Len(s)), seps)

NonEmpty(ss) == SelectSeq(ss, LAMBDA w : w # <<>>)

(* A line as parse reads it (usm.rs:218-221): dropped when its first       *)
(* non-blank symbol is "#", else cut at its first "#".                     *)
CodeOf(line) == Head(Split(line, {"#"}))

RECURSIVE SourceWords(_)
SourceWords(lines) ==
    IF lines = <<>> THEN <<>>
    ELSE NonEmpty(Split(CodeOf(Head(lines)), {" "})) \o SourceWords(Tail(lines))

Token(t, kind, cond, val, name) ==
    [t |-> t, kind |-> kind, cond |-> cond, val |-> val, name |-> name]

(* The loop of parse over the words (usm.rs:223-247).                      *)
RECURSIVE ParseWords(_, _, _, _)
ParseWords(words, tokens, labels, n) ==
    IF words = <<>> THEN [tokens |-> tokens, labels |-> labels]
    ELSE LET word == Head(words)
             stem == SubSeq(word, 1, Len(word) - 1)
             k    == Kind_try_parse(word)
             ks   == Kind_try_parse(stem)
             v    == Value_try_parse(word)
             exp  == Token("LabelExpand", "Nop", FALSE, UNull, word)
         IN  IF word[Len(word)] = ":"
             THEN ParseWords(Tail(words), tokens, Append(labels, [name |-> stem, at |-> n]), n)
             ELSE IF word[Len(word)] = "?"
             THEN ParseWords(Tail(words),
                     Append(tokens, IF ks.ok THEN Token("Inst", ks.kind, TRUE, UNull, <<>>) ELSE exp),
                     labels, n)
             ELSE IF v.ok
             THEN ParseWords(Tail(words), Append(tokens, Token("Value", "Nop", FALSE, v.val, <<>>)),
                     labels, n)
             ELSE IF k.ok
             THEN ParseWords(Tail(words), Append(tokens, Token("Inst", k.kind, FALSE, UNull, <<>>)),
                     labels, n + 1)
             ELSE ParseWords(Tail(words), Append(tokens, exp), labels, n)

(* parse (usm.rs:214-250).                                                 *)
parse(source) ==
    ParseWords(SourceWords(Split(source, {"\n"})), <<>>, <<>>, 0)

(* Array::get_last_mut, which usm.rs:266 and 289 call: the last           *)
(* instruction pushed.  With none pushed it gives the array's default      *)
(* instruction, a Nop, as get_last does (array.rs:20-22), so that an       *)
(* operand with nothing to attach to is refused like one after a Nop.      *)
get_last_mut(prog) ==
    IF prog = <<>> THEN UInst("Nop", UNull, FALSE) ELSE prog[Len(prog)]

(* The loop of disassemble over the tokens (usm.rs:256-304).  An operand   *)
(* goes to the last instruction pushed.                                    *)
RECURSIVE DisTokens(_, _, _)
DisTokens(tokens, labels, prog) ==
    IF tokens = <<>> THEN [err |-> "Ok", program |-> prog]
    ELSE LET tk    == Head(tokens)
             lastk == get_last_mut(prog).kind
             found == {i \in 1 .. Len(labels) : Contains(labels[i].name, tk.name)}
             first == CHOOSE i \in found : \A j \in found : i <= j
             opnd  == IF tk.t = "Value" THEN tk.val
                      ELSE UVal("Uint", IsizeWord(labels[first].at))
         IN  IF tk.t = "Inst"
             THEN (IF Len(prog) = PROGRAM_INST_CAPACITY THEN [err |-> "panic", program |-> prog]
                   ELSE DisTokens(Tail(tokens), labels,
                                  Append(prog, UInst(tk.kind, UNull, tk.cond))))
             ELSE IF lastk = "Nop" \/ ~has_operand(lastk) \/ (tk.t = "LabelExpand" /\ found = {})
             THEN [err |-> "ParseError", program |-> prog]
             ELSE DisTokens(Tail(tokens), labels, [prog EXCEPT ![Len(prog)].operand = opnd])

(* disassemble (usm.rs:252-319): text to program.                          *)
(* The single-pass disassembler (usm.rs:332-388), for words that carry no  *)
(* type suffix: a label is known only once its declaration has been read,  *)
(* and the word after an operand-taking instruction is its operand.        *)
RECURSIVE SinglePass(_, _, _)
SinglePass(words, labels, prog) ==
    IF words = <<>> THEN [err |-> "Ok", program |-> prog, labels |-> labels]
    ELSE LET word  == Head(words)
             stem  == SubSeq(word, 1, Len(word) - 1)
             cond  == word[Len(word)] = "?"
             k     == Kind_try_parse(IF cond THEN stem ELSE word)
             op    == words[2]
             found == {i \in 1 .. Len(labels) : Contains(labels[i].name, op)}
             first == CHOOSE i \in found : \A j \in found : i <= j
             n     == ParseInt(op, TRUE)
             opnd  == IF found # {} THEN UVal("Uint", IsizeWord(labels[first].at))
                      ELSE UVal("Int", IsizeWord(n.n))
             fault(e) == [err |-> e, program |-> prog, labels |-> labels]
         IN  IF word[Len(word)] = ":"
             THEN SinglePass(Tail(words), Append(labels, [name |-> stem, at |-> Len(prog)]), prog)
             ELSE IF ~k.ok THEN fault("ParseError")
             ELSE IF Len(prog) = PROGRAM_INST_CAPACITY THEN fault("panic")
             ELSE IF ~has_operand(k.kind)
             THEN SinglePass(Tail(words), labels, Append(prog, UInst(k.kind, UNull, cond)))
             ELSE IF Len(words) < 2 \/ (found = {} /\ ~n.ok) THEN fault("InvalidOperandValue")
             ELSE SinglePass(Tail(Tail(words)), labels, Append(prog, UInst(k.kind, opnd, cond)))

disassemble_SinglePass(src) == SinglePass(SourceWords(Split(src, {"\n"})), <<>>, <<>>)

disassemble(src) ==
    LET p == parse(src)
        d == DisTokens(p.tokens, p.labels, <<>>)
    IN  IF d.err # "Ok" THEN [err |-> d.err, program |-> d.program, labels |-> p.labels]
        ELSE IF \E i \in 1 .. Len(d.program) :
                    has_operand(d.program[i].kind) /\ d.program[i].operand.tag = "Null"
        THEN [err |-> "ParseError", program |-> d.program, labels |-> p.labels]
        ELSE [err |-> "Ok", program |-> d.program, labels |-> p.labels]

(* The programs given to the assembler.                                    *)
MaxAsmLen == 2

AsmOperands ==
    {UVal("Int", IsizeWord(n)) : n \in {0 - 1, 12}}
    \cup {UVal("Uint", IsizeWord(12))}
    \cup {UVal("Float", F64Word(t)) : t \in {16368, 16376, 32760}}

AsmAlphabet ==
    {UInst(k, UNull, c) : k \in {"Nop", "Drop", "NotEq"}, c \in BOOLEAN}
    \cup {UInst(k, v, c) : k \in {"Push", "Dup", "Jump"}, v \in AsmOperands, c \in BOOLEAN}

AsmPrograms == UNION {[1 .. n -> AsmAlphabet] : n \in 0 .. MaxAsmLen}

(* The source texts given to the disassembler: up to MaxSourceWords words, *)
(* each a label declaration, a mnemonic (one conditional), a literal or a  *)
(* label reference, followed in turn by a blank and a line end.            *)
MaxSourceWords == 5

SourceVocabulary ==
    {<<"a", ":">>, <<"a", "b", ":">>, <<"kyn">>, <<"klady">>, <<"klady", "?">>,
     <<"1">>, <<"a">>}

RECURSIVE JoinWords(_, _)
JoinWords(ws, i) ==
    IF i > Len(ws) THEN <<>>
    ELSE ws[i] \o <<IF i % 2 = 1 THEN " " ELSE "\n">> \o JoinWords(ws, i + 1)

(* Texts of one instruction more than the program array holds, with or     *)
(* without a literal after the last.                                       *)
OverlongTexts ==
    {JoinWords(ws \o t, 1) : ws \in [1 .. PROGRAM_INST_CAPACITY + 1 -> {<<"kyn">>, <<"klady">>}],
                             t \in {<<>>, <<(<<"1">>)>>}}

SourceTexts ==
    {JoinWords(ws, 1) : ws \in UNION {[1 .. n -> SourceVocabulary] : n \in 0 .. MaxSourceWords}}
    \cup OverlongTexts

AsmIdle == [pc |-> "idle", given |-> "none", prog |-> <<>>, text |-> <<>>, err |-> "none",
            out |-> <<>>, labels |-> <<>>, words |-> <<>>]

-----------------------------------------------------------------------------
(* The engine's own codec and file loaders (main.rs:73-130, 171-259).  A   *)
(* chunk is 10 bytes: the kind, the operand's 8 bytes, and a last byte that*)
(* says whether there is an operand.  An operand read from a file is taken *)
(* as the sign extension of its low 32 bits; the files given hold operands *)
(* of the engine's word.                                                   *)

MainKinds == <<"Nop", "Drop", "Dup", "Push", "DupAt", "JumpIf", "Jump", "Eq", "Sub", "Mul",
               "Div", "Sum">>

MainKindIdx(kind) == CHOOSE i \in 0 .. Len(MainKinds) - 1 : MainKinds[i + 1] = kind

(* Instruction::serialize (main.rs:73-99).                                 *)
Instruction_serialize(inst) ==
    IF inst.kind \in {"Push", "DupAt", "JumpIf", "Jump"}
    THEN IF inst.operand.tag # "Int"
         THEN [err |-> "InvalidOperandValue", se |-> <<>>]
         ELSE [err |-> "Ok",
               se  |-> <<MainKindIdx(inst.kind)>> \o to_le_bytes(IsizeWord(inst.operand.val))
                           \o <<1>>]
    ELSE [err |-> "Ok", se |-> <<MainKindIdx(inst.kind)>> \o to_le_bytes(ZeroWord) \o <<0>>]

(* Instruction::deserialize (main.rs:101-130).                             *)
Instruction_deserialize(se) ==
    IF se[1] >= Len(MainKinds)
    THEN [err |-> "InvalidBinaryInstruction", inst |-> NopInst]
    ELSE [err  |-> "Ok",
          inst |-> Inst(MainKinds[se[1] + 1],
                        IF se[INST_CHUNCK_SIZE] # 0
                        THEN IntV(IsizeOf(from_le_bytes(SubSeq(se, 2, INST_CHUNCK_SIZE - 1))))
                        ELSE Null)]

(* The loop of deserialize_from_file over buf.chunks(10) (main.rs:177-182):*)
(* chunk i is converted to a [u8; 10] (unwrap panics on a shorter one),    *)
(* deserialized (`?` returns its fault), then stored in program[i], which  *)
(* panics past the array.  What was stored before a failure stays.         *)
RECURSIVE DeserializeChunks(_, _, _)
DeserializeChunks(buf, i, prog) ==
    IF buf = <<>> THEN [err |-> "Ok", program |-> prog, size |-> i]
    ELSE IF Len(buf) < INST_CHUNCK_SIZE THEN [err |-> "panic", program |-> prog, size |-> i]
    ELSE LET d == Instruction_deserialize(SubSeq(buf, 1, INST_CHUNCK_SIZE))
         IN  IF d.err # "Ok" THEN [err |-> d.err, program |-> prog, size |-> i]
             ELSE IF i >= PROGRAM_INST_CAPACITY THEN [err |-> "panic", program |-> prog, size |-> i]
             ELSE DeserializeChunks(SubSeq(buf, INST_CHUNCK_SIZE + 1, Len(buf)), i + 1,
                                    [prog EXCEPT ![i] = d.inst])

(* The mnemonics disassemble_from_file knows (main.rs:213-226), Cyrillic   *)
(* in the source, in the order of MainKinds.                               *)
MainMnemonics == <<"neop", "kyn", "kopiju", "klady", "kopiju_u", "krok_rivn", "krok", "rivn",
                   "rizn", "mnozh", "dily", "suma">>

(* The loop of disassemble_from_file over the words of the text            *)
(* (main.rs:210-254): a mnemonic, then for Push, DupAt, JumpIf and Jump    *)
(* the next word parsed as isize.                                          *)
RECURSIVE DisassembleWords(_, _, _)
DisassembleWords(words, idx, prog) ==
    IF words = <<>> THEN [err |-> "Ok", program |-> prog, size |-> idx]
    ELSE LET token == Head(words)
             known == Len(token) = 1 /\ \E i \in 1 .. Len(MainMnemonics) : MainMnemonics[i] = token[1]
             kind  == MainKinds[CHOOSE i \in 1 .. Len(MainMnemonics) : MainMnemonics[i] = token[1]]
             with  == kind \in {"Push", "DupAt", "JumpIf", "Jump"}
             num   == IF Len(words) > 1 THEN ParseInt(words[2], TRUE) ELSE [ok |-> FALSE, n |-> 0]
             fits  == num.ok /\ num.n >= ISIZE_MIN /\ num.n <= ISIZE_MAX
             rest  == SubSeq(words, IF with THEN 3 ELSE 2, Len(words))
         IN  IF ~known THEN [err |-> "InvalidInstruction", program |-> prog, size |-> idx]
             ELSE IF with /\ ~fits THEN [err |-> "InvalidOperandValue", program |-> prog, size |-> idx]
             ELSE IF idx >= PROGRAM_INST_CAPACITY THEN [err |-> "panic", program |-> prog, size |-> idx]
             ELSE DisassembleWords(rest, idx + 1,
                      [prog EXCEPT ![idx] = Inst(kind, IF with THEN IntV(num.n) ELSE Null)])

(* The binary files given: whole chunks, then nothing or a partial chunk.  *)
FileChunks ==
    {Instruction_serialize(i).se : i \in {NopInst, Inst("Push", IntV(1)), Inst("Push", IntV(-1))}}
    \cup {<<Len(MainKinds), 0, 0, 0, 0, 0, 0, 0, 0, 0>>}

FileTails == {<<>>, <<3>>, <<3, 1, 0>>}

RECURSIVE Concat(_)
Concat(ss) == IF ss = <<>> THEN <<>> ELSE Head(ss) \o Concat(Tail(ss))

BinaryFiles ==
    {Concat(cs) \o t : cs \in UNION {[1 .. n -> FileChunks] : n \in 0 .. PROGRAM_INST_CAPACITY + 1},
                       t \in FileTails}

(* The text files given: lines of one instruction, a bad operand, a missing*)
(* operand, an unknown word.                                               *)
FileLines == {<<"neop", "\n">>, <<"klady", " ", "1", "\n">>, <<"klady", " ", "kyn", "\n">>,
              <<"klady", "\n">>, <<"stij", "\n">>}

TextFiles ==
    {Concat(ls) : ls \in UNION {[1 .. n -> FileLines] : n \in 0 .. PROGRAM_INST_CAPACITY + 1}}

(* The slices given to load_from_memmory, one longer than the program      *)
(* array among them.                                                       *)
LongSlices ==
    UNION {[1 .. n -> {NopInst, Inst("Push", IntV(1))}] : n \in 0 .. PROGRAM_INST_CAPACITY + 1}

-----------------------------------------------------------------------------
(* The programs a host loads.                                              *)

PushOperands == {IntV(ISIZE_MIN), IntV(-1), IntV(0), IntV(1), IntV(ISIZE_MAX), Null}

AddrOperands == {IntV(0), IntV(1)}

Alphabet ==
    {Inst(k, Null) : k \in {"Nop", "Drop", "Dup", "Eq", "Sub", "Mul", "Div", "Sum"}}
    \cup {Inst("Push", v) : v \in PushOperands}
    \cup {Inst(k, v) : k \in {"DupAt", "JumpIf", "Jump"}, v \in AddrOperands}
    \cup {Inst("Dup", IntV(1))}

StackAlphabet ==
    {Inst("Push", IntV(0)), Inst("Push", IntV(1)), Inst("Dup", Null), Inst("Eq", Null)}

Slices ==
    UNION {[1 .. n -> Alphabet] : n \in 0 .. MaxSliceLen}
    \cup [1 .. PROGRAM_INST_CAPACITY -> StackAlphabet]

(* Instructions with the conditional flag of usm.rs:142-147, set or not.   *)
CondAlphabet ==
    {[Inst(k, v) EXCEPT !.conditional = c] :
        k \in {"Nop", "Drop", "Sum"}, v \in {Null}, c \in BOOLEAN}
    \cup {[Inst("Push", v) EXCEPT !.conditional = c] :
        v \in {IntV(0), IntV(1)}, c \in BOOLEAN}

CondSlices == UNION {[1 .. n -> CondAlphabet] : n \in 0 .. MaxSliceLen}

NoFile == [path |-> "none", data |-> <<>>, out |-> <<>>]

None == [some |-> FALSE, v |-> 0]

Some(l) == [some |-> TRUE, v |-> l]

Limits == {None, Some(MaxInstLimit)}

(* VM::init (main.rs:144-157).                                             *)
VMInit ==
    /\ pc = "init"
    /\ build \in {"debug", "release"}
    /\ stack = [i \in 0 .. VM_STACK_CAPACITY - 1 |-> Null]
    /\ stack_size = 0
    /\ program = [i \in 0 .. PROGRAM_INST_CAPACITY - 1 |-> NopInst]
    /\ program_size = 0
    /\ inst_ptr = 0
    /\ inst_limit \in Limits
    /\ inst_count = 0
    /\ file = NoFile
    /\ load_res = "none"
    /\ result = "none"
    /\ last = [inst |-> NopInst, ip |-> 0, size |-> 0, stack |-> stack]
    /\ pushes = 0
    /\ drops = 0
    /\ within = TRUE

Init == VMInit /\ codec = CodecIdle /\ asm = AsmIdle

(* VM::load_from_memmory (main.rs:159-169) given a slice drawn from S.      *)
LoadSlice(S) ==
    /\ pc = "init"
    /\ \E p \in S :
        /\ file' = [path |-> "memory", data |-> p, out |-> <<>>]
        /\ IF Len(p) > PROGRAM_INST_CAPACITY
           THEN /\ load_res' = "InstLimitkOverflow"
                /\ UNCHANGED <<program, program_size>>
           ELSE /\ program_size' = Len(p)
                /\ program' = [i \in 0 .. PROGRAM_INST_CAPACITY - 1 |->
                                  IF i < Len(p) THEN p[i + 1] ELSE program[i]]
                /\ load_res' = "Ok"
    /\ pc' = "loaded"
    /\ UNCHANGED <<build, stack, stack_size, inst_ptr, inst_limit, inst_count,
                   result, last, pushes, drops, within, codec, asm>>

LoadFromMemmory == LoadSlice(Slices)

(* The same load given instructions that carry the conditional flag.       *)
LoadConditional == LoadSlice(CondSlices)

(* execute's limit (main.rs:264-267).                                      *)
(* Mutant: the loop runs once more than the limit allows.                  *)
Limit_OneMore == (IF inst_limit.some THEN inst_limit.v ELSE program_size) + 1

Limit == IF inst_limit.some THEN inst_limit.v ELSE program_size

TheVM == [stack |-> stack, stack_size |-> stack_size, program |-> program,
          program_size |-> program_size, inst_ptr |-> inst_ptr, err |-> "Ok"]

(* VM::execute up to its loop (main.rs:261-268).                           *)
ExecuteStart ==
    /\ pc = "loaded"
    /\ pc' = "running"
    /\ inst_count' = 0
    /\ UNCHANGED <<build, stack, stack_size, program, program_size, inst_ptr,
                   inst_limit, file, load_res, result, last, pushes, drops, within, codec, asm>>

(* Mutant: inst_ptr moved past the instruction that faulted.              *)
Step_AdvancesOnFault ==
    /\ pc = "running"
    /\ inst_ptr < program_size /\ inst_count # Limit
    /\ LET inst == program[inst_ptr]
           vm   == execute_instruction(TheVM, build)
       IN  /\ last' = [inst |-> inst, ip |-> inst_ptr, size |-> stack_size, stack |-> stack]
           /\ pushes' = IF inst.kind = "Push" THEN pushes + 1 ELSE pushes
           /\ drops' = IF inst.kind = "Drop" THEN drops + 1 ELSE drops
           /\ within' = (within /\ ~(inst.kind = "Push" /\ stack_size = VM_STACK_CAPACITY)
                                /\ ~(inst.kind = "Drop" /\ stack_size = 0))
           /\ stack' = vm.stack
           /\ stack_size' = vm.stack_size
           /\ IF vm.err # "Ok"
              THEN /\ result' = vm.err
                   /\ pc' = "done"
                   /\ inst_ptr' = vm.inst_ptr + 1
                   /\ inst_count' = inst_count
              ELSE /\ result' = result
                   /\ pc' = "running"
                   /\ inst_ptr' = vm.inst_ptr + 1
                   /\ inst_count' = inst_count + 1
    /\ UNCHANGED <<build, program, program_size, inst_limit, file, load_res, codec, asm>>

(* One iteration of execute's loop (main.rs:269-292): the instruction at   *)
(* inst_ptr, then inst_ptr += 1 and inst_count += 1; a Panic value returns *)
(* at once through `?`.                                                    *)
Step ==
    /\ pc = "running"
    /\ inst_ptr < program_size /\ inst_count # Limit
    /\ LET inst == program[inst_ptr]
           vm   == execute_instruction(TheVM, build)
       IN  /\ last' = [inst |-> inst, ip |-> inst_ptr, size |-> stack_size, stack |-> stack]
           /\ pushes' = IF inst.kind = "Push" THEN pushes + 1 ELSE pushes
           /\ drops' = IF inst.kind = "Drop" THEN drops + 1 ELSE drops
           /\ within' = (within /\ ~(inst.kind = "Push" /\ stack_size = VM_STACK_CAPACITY)
                                /\ ~(inst.kind = "Drop" /\ stack_size = 0))
           /\ stack' = vm.stack
           /\ stack_size' = vm.stack_size
           /\ IF vm.err # "Ok"
              THEN /\ result' = vm.err
                   /\ pc' = "done"
                   /\ inst_ptr' = vm.inst_ptr
                   /\ inst_count' = inst_count
              ELSE /\ result' = result
                   /\ pc' = "running"
                   /\ inst_ptr' = vm.inst_ptr + 1
                   /\ inst_count' = inst_count + 1
    /\ UNCHANGED <<build, program, program_size, inst_limit, file, load_res, codec, asm>>

(* execute's loop ends and it returns Ok(()) (main.rs:269, 294).           *)
ExecuteReturn ==
    /\ pc = "running"
    /\ ~(inst_ptr < program_size /\ inst_count # Limit)
    /\ result' = "Ok"
    /\ pc' = "done"
    /\ UNCHANGED <<build, stack, stack_size, program, program_size, inst_ptr,
                   inst_limit, inst_count, file, load_res, last, pushes, drops, within, codec, asm>>

Next == LoadFromMemmory \/ ExecuteStart \/ Step \/ ExecuteReturn

Spec == Init /\ [][Next]_vars

(* The engine run on programs whose instructions may be conditional.       *)
NextCond == LoadConditional \/ ExecuteStart \/ Step \/ ExecuteReturn

SpecCond == Init /\ [][NextCond]_vars

(* VM::deserialize_from_file (main.rs:171-186) on the bytes of a file.  A  *)
(* Rust panic ends the process; a fault is printed and main goes on to     *)
(* execute (main.rs:475-485).                                              *)
DeserializeFromFile ==
    /\ pc = "init"
    /\ \E buf \in BinaryFiles :
        LET d == DeserializeChunks(buf, 0, program)
        IN  /\ file' = [path |-> "binary", data |-> buf, out |-> <<>>]
            /\ program' = d.program
            /\ program_size' = IF d.err = "Ok" THEN d.size ELSE program_size
            /\ load_res' = d.err
            /\ pc' = IF d.err = "panic" THEN "done" ELSE "loaded"
    /\ UNCHANGED <<build, stack, stack_size, inst_ptr, inst_limit, inst_count,
                   result, last, pushes, drops, within, codec, asm>>

(* VM::disassemble_from_file (main.rs:202-259) on the text of a file.      *)
DisassembleFromFile ==
    /\ pc = "init"
    /\ \E text \in TextFiles :
        LET d == DisassembleWords(NonEmpty(Split(text, {" ", "\n"})), 0, program)
        IN  /\ file' = [path |-> "text", data |-> text, out |-> <<>>]
            /\ program' = d.program
            /\ program_size' = IF d.err = "Ok" THEN d.size ELSE program_size
            /\ load_res' = d.err
            /\ pc' = IF d.err = "panic" THEN "done" ELSE "loaded"
    /\ UNCHANGED <<build, stack, stack_size, inst_ptr, inst_limit, inst_count,
                   result, last, pushes, drops, within, codec, asm>>

LoadLongSlice == LoadSlice(LongSlices)

(* A host that loads by any of the three paths and runs what it loaded.    *)
NextLoad ==
    \/ LoadLongSlice \/ DeserializeFromFile \/ DisassembleFromFile
    \/ ExecuteStart \/ Step \/ ExecuteReturn

SpecLoad == Init /\ [][NextLoad]_vars

(* The loop of serialize_into_file over self.program.iter() (main.rs:191-  *)
(* 193): every slot of the program array from slot i on is serialized and  *)
(* its chunk appended; `?` returns the first fault.                        *)
RECURSIVE SerializeSlots(_, _, _)
SerializeSlots(prog, i, buf) ==
    IF i = PROGRAM_INST_CAPACITY THEN [err |-> "Ok", buf |-> buf]
    ELSE LET s == Instruction_serialize(prog[i])
         IN  IF s.err # "Ok" THEN [err |-> s.err, buf |-> buf]
             ELSE SerializeSlots(prog, i + 1, buf \o s.se)

(* VM::serialize_into_file (main.rs:188-200) after a load from a slice:    *)
(* the file is written only when every slot was serialized.                *)
SerializeIntoFile ==
    /\ pc = "loaded" /\ file.path = "memory" /\ load_res = "Ok"
    /\ LET s == SerializeSlots(program, 0, <<>>)
       IN  /\ file' = [file EXCEPT !.path = IF s.err = "Ok" THEN "written" ELSE "unwritten",
                                   !.out = s.buf]
           /\ result' = s.err
    /\ pc' = "written"
    /\ UNCHANGED <<build, stack, stack_size, program, program_size, inst_ptr, inst_limit,
                   inst_count, load_res, last, pushes, drops, within, codec, asm>>

(* VM::deserialize_from_file (main.rs:171-186) on the file just written.   *)
DeserializeWritten ==
    /\ pc = "written" /\ file.path = "written"
    /\ LET d == DeserializeChunks(file.out, 0, program)
       IN  /\ program' = d.program
           /\ program_size' = IF d.err = "Ok" THEN d.size ELSE program_size
           /\ load_res' = d.err
    /\ pc' = "reread"
    /\ UNCHANGED <<build, stack, stack_size, inst_ptr, inst_limit, inst_count, file,
                   result, last, pushes, drops, within, codec, asm>>

(* A host that loads a slice, writes the program to a file and loads the   *)
(* file back.                                                              *)
NextFile == LoadFromMemmory \/ SerializeIntoFile \/ DeserializeWritten

SpecFile == Init /\ [][NextFile]_vars

(* The codec applied to one instruction, or deserialize to one chunk read  *)
(* from a file (usm.rs:149-205).                                           *)
CodecInit ==
    /\ VMInit /\ build = "release" /\ inst_limit = None /\ asm = AsmIdle
    /\ \/ \E i \in CodecInputs :
              codec = [CodecIdle EXCEPT !.pc = "input", !.given = "inst", !.inst = i]
       \/ \E se \in RawChunks :
              codec = [CodecIdle EXCEPT !.pc = "serialized", !.given = "chunk", !.chunk = se]

Serialize ==
    /\ codec.pc = "input"
    /\ codec' = [codec EXCEPT !.pc = "serialized", !.chunk = serialize(codec.inst)]
    /\ UNCHANGED <<vmVars, asm>>

Deserialize ==
    /\ codec.pc = "serialized"
    /\ LET d == deserialize(codec.chunk)
       IN  codec' = [codec EXCEPT !.pc = "done", !.err = d.err, !.out = d.inst]
    /\ UNCHANGED <<vmVars, asm>>

CodecNext == Serialize \/ Deserialize

SpecCodec == CodecInit /\ [][CodecNext]_vars

(* The assembler applied to one program, then the disassembler to its      *)
(* text; or the disassembler applied to a source text.                     *)
AsmInit ==
    /\ VMInit /\ build = "release" /\ inst_limit = None /\ codec = CodecIdle
    /\ \/ \E p \in AsmPrograms :
              asm = [AsmIdle EXCEPT !.pc = "input", !.given = "program", !.prog = p]
       \/ \E t \in SourceTexts :
              asm = [AsmIdle EXCEPT !.pc = "text", !.given = "text", !.text = t]

Assemble ==
    /\ asm.pc = "input"
    /\ asm' = [asm EXCEPT !.pc = "text", !.text = assemble(asm.prog)]
    /\ UNCHANGED <<vmVars, codec>>

Disassemble ==
    /\ asm.pc = "text"
    /\ LET d == disassemble(asm.text)
       IN  asm' = [asm EXCEPT !.pc = "done", !.err = d.err, !.out = d.program,
                              !.labels = d.labels,
                              !.words = SourceWords(Split(asm.text, {"\n"}))]
    /\ UNCHANGED <<vmVars, codec>>

AsmNext == Assemble \/ Disassemble

SpecAsm == AsmInit /\ [][AsmNext]_vars

-----------------------------------------------------------------------------
(* What the last iteration started from and did.                           *)

(* The iteration before this state executed an instruction of kind k.      *)
Stepped(k) == pc \in {"running", "done"} /\ inst_count + (IF result \in {"none", "Ok"} THEN 0 ELSE 1) > 0
              /\ last.inst.kind = k

SteppedAny == pc \in {"running", "done"}
              /\ inst_count + (IF result \in {"none", "Ok"} THEN 0 ELSE 1) > 0

(* Top of the stack (a) and the element below it (b) before that iteration.*)
LastA == last.stack[last.size - 1]

LastB == last.stack[last.size - 2]

(* The exact, unbounded result of b <op> a.                                *)
Exact(k, a, b) ==
    CASE k = "Sum" -> b + a
      [] k = "Sub" -> b - a
      [] k = "Mul" -> b * a

InRange(x) == x >= ISIZE_MIN /\ x <= ISIZE_MAX

(* Every slot the stack held before the iteration is unchanged.            *)
LastStackKept == \A i \in 0 .. last.size - 1 : stack[i] = last.stack[i]

(* The machine before the iteration with the top of its stack taken off.   *)
LastGuardPopped ==
    [TheVM EXCEPT !.stack = last.stack, !.stack_size = last.size - 1, !.inst_ptr = last.ip]

LastStackBelowGuardKept == \A i \in 0 .. last.size - 2 : stack[i] = last.stack[i]

OnlyPushDrop ==
    \A i \in 0 .. program_size - 1 :
        \/ program[i].kind = "Drop"
        \/ program[i].kind = "Push" /\ program[i].operand # Null

-----------------------------------------------------------------------------
(* C1: for every instruction whose operand is Null when its kind takes no  *)
(* operand and an Int, Uint or Float when it takes one, with either value  *)
(* of the conditional flag, deserialize(serialize(i)) succeeds and is i:   *)
(* the same kind, the same operand tag and 64-bit pattern, the same flag.  *)
C1_CodecRoundTrip ==
    (codec.pc = "done" /\ codec.given = "inst" /\ WellFormed(codec.inst))
        => codec.err = "Ok" /\ codec.out = codec.inst

C2_TextRoundTrip ==
    (asm.pc = "done" /\ asm.given = "program"
        /\ \A i \in 1 .. Len(asm.prog) : WellFormed(asm.prog[i]))
        => asm.err = "Ok" /\ asm.out = asm.prog

(* C3: a program of Push (non-Null operand) and Drop instructions in which *)
(* no Push meets a full stack and no Drop an empty one runs without a      *)
(* fault, and the stack size is the number of Push instructions executed   *)
(* minus the number of Drop instructions executed, at every point of the   *)
(* run and at its end.                                                     *)
C3_StackDiscipline ==
    (pc \in {"running", "done"} /\ OnlyPushDrop /\ within)
        => /\ result \in {"none", "Ok"}
           /\ stack_size = pushes - drops

C3_Witness ==
    /\ pc = "done" /\ OnlyPushDrop /\ within
    /\ result = "Ok" /\ pushes = 2 /\ drops = 1 /\ stack_size = 1

(* C4: in every reachable state 0 <= stack_size <= VM_STACK_CAPACITY and   *)
(* every slot below stack_size holds a non-Null value.                     *)
C4_StackInvariant ==
    /\ stack_size >= 0
    /\ stack_size <= VM_STACK_CAPACITY
    /\ \A i \in 0 .. stack_size - 1 : stack[i] # Null

(* C5: Sum, Sub and Mul on Int operands a (top) and b (next) whose exact   *)
(* result b <op> a fits isize push exactly that result: no fault, the      *)
(* stack is one shorter and its new top is b <op> a.                       *)
C5_Arithmetic ==
    \A k \in {"Sum", "Sub", "Mul"} :
        (Stepped(k) /\ last.size >= 2 /\ InRange(Exact(k, LastA.val, LastB.val)))
            => /\ result \in {"none", "Ok"}
               /\ stack_size = last.size - 1
               /\ stack[stack_size - 1] = IntV(Exact(k, LastA.val, LastB.val))

C5_Witness ==
    /\ Stepped("Sub") /\ last.size >= 2
    /\ LastA = IntV(1) /\ LastB = IntV(0)
    /\ stack_size = 1 /\ stack[0] = IntV(-1)

(* C6: when the exact result of Sum, Sub or Mul is outside isize, or Div   *)
(* is isize::MIN / -1, the step returns a fault and pushes nothing.        *)
C6_OverflowFaults ==
    \A k \in {"Sum", "Sub", "Mul", "Div"} :
        (/\ Stepped(k) /\ last.size >= 2
         /\ IF k = "Div" THEN LastB.val = ISIZE_MIN /\ LastA.val = -1
                         ELSE ~InRange(Exact(k, LastA.val, LastB.val)))
            => /\ result \in Faults
               /\ stack_size = last.size - 2

(* C7 as stated: Div with a = 0 on top returns, for every b, a fault of    *)
(* the kind integer overflow reports, and pushes nothing.                  *)
C7_DivZeroIsOverflowKind ==
    (Stepped("Div") /\ last.size >= 2 /\ LastA.val = 0)
        => /\ result = "IntegerOverflow"
           /\ stack_size = last.size - 2

(* C7 as amended: Div with a = 0 on top returns, for every b, the fault    *)
(* DivByZero, a kind of its own, and pushes nothing: a and b are popped    *)
(* and the rest of the stack is as it was.                                 *)
C7_DivZeroFaults ==
    (Stepped("Div") /\ last.size >= 2 /\ LastA.val = 0)
        => /\ result = "DivByZero"
           /\ result # "IntegerOverflow"
           /\ stack_size = last.size - 2
           /\ \A i \in 0 .. stack_size - 1 : stack[i] = last.stack[i]
           /\ \A i \in stack_size .. VM_STACK_CAPACITY - 1 : stack[i] = Null

C7_Witness ==
    /\ Stepped("Div") /\ last.size >= 2
    /\ LastA = IntV(0) /\ LastB = IntV(ISIZE_MIN)
    /\ result = "DivByZero"

(* C8 as stated: Eq on a stack of at least two elements leaves every       *)
(* element in place and makes the stack exactly one longer.                *)
C8_EqGrowsByOne ==
    (Stepped("Eq") /\ last.size >= 2)
        => /\ LastStackKept
           /\ stack_size = last.size + 1

(* C8 as amended: Eq on a stack of at least two elements leaves every      *)
(* element in place; with fewer than VM_STACK_CAPACITY elements the stack  *)
(* becomes exactly one longer, and on a full stack the step returns        *)
(* StackOverflow and the stack size does not change.                       *)
C8_EqNonDestructive ==
    (Stepped("Eq") /\ last.size >= 2)
        => /\ LastStackKept
           /\ IF last.size < VM_STACK_CAPACITY
              THEN result \in {"none", "Ok"} /\ stack_size = last.size + 1
              ELSE result = "StackOverflow" /\ stack_size = last.size

C8_Witness ==
    /\ Stepped("Eq") /\ last.size >= 2 /\ last.size = VM_STACK_CAPACITY
    /\ result = "StackOverflow" /\ stack_size = VM_STACK_CAPACITY

(* C10: Push of a non-Null operand on a stack that holds                   *)
(* VM_STACK_CAPACITY elements returns StackOverflow and leaves the stack   *)
(* and its size as they were.                                              *)
C10_PushAtCapacity ==
    (Stepped("Push") /\ last.inst.operand # Null /\ last.size = VM_STACK_CAPACITY)
        => /\ result = "StackOverflow"
           /\ stack_size = last.size
           /\ stack = last.stack

C10_Witness ==
    /\ Stepped("Push") /\ last.inst.operand = IntV(1) /\ last.size = VM_STACK_CAPACITY
    /\ result = "StackOverflow"

(* C11: Drop executed on an empty stack returns StackUnderflow as a fault  *)
(* value and the stack size stays 0.                                       *)
C11_DropOnEmptyFaults ==
    (Stepped("Drop") /\ last.size = 0)
        => result = "StackUnderflow" /\ stack_size = 0

(* The operand tag and the conditional flag that byte 1 stands for in the  *)
(* table of C14.                                                           *)
Byte1Tag(b) ==
    IF b >= 200 THEN "Float" ELSE IF b >= 100 THEN "Uint" ELSE IF b >= 10 THEN "Int" ELSE "Null"

Byte1Code(tag) ==
    CASE tag = "Float" -> 200 [] tag = "Uint" -> 100 [] tag = "Int" -> 10 [] tag = "Null" -> 0

Byte1Cond(b) == b % (IF Byte1Code(Byte1Tag(b)) > 10 THEN Byte1Code(Byte1Tag(b)) ELSE 10) # 0

(* C12: deserialize of a 10-byte chunk whose opcode byte names no defined  *)
(* opcode returns the unrecognized-opcode fault as a value, whatever the   *)
(* other nine bytes hold.                                                  *)
C12_UnknownOpcodeFaults ==
    (codec.pc = "done" /\ codec.chunk[1] >= Len(UsmKinds))
        => codec.err = "InvalidBinaryInstruction"

C14_Byte1Table ==
    /\ (codec.pc \in {"serialized", "done"} /\ codec.given = "inst")
          => codec.chunk[2] = Byte1Code(codec.inst.operand.tag)
                                  + (IF codec.inst.conditional THEN 1 ELSE 0)
    /\ (codec.pc = "done" /\ codec.err = "Ok")
          => /\ codec.out.operand.tag = Byte1Tag(codec.chunk[2])
             /\ codec.out.conditional = Byte1Cond(codec.chunk[2])

(* C15: a run with no instruction limit goes on until inst_ptr reaches the *)
(* program length or a step faults: execute never returns Ok while         *)
(* inst_ptr is below the program length.                                   *)
C15_NoLimitRunsToEnd ==
    (pc = "done" /\ result = "Ok" /\ ~inst_limit.some) => inst_ptr >= program_size

(* C16: when a step returns a fault, execute returns that fault at once:   *)
(* no further instruction is executed and inst_ptr stays at the            *)
(* instruction that faulted.                                               *)
C16_FaultStopsRun ==
    (result \in Faults)
        => /\ pc = "done"
           /\ inst_ptr = last.ip
           /\ program[inst_ptr] = last.inst
           /\ ~ENABLED Step

C16_Witness ==
    /\ pc = "done" /\ result = "StackUnderflow"
    /\ inst_ptr = last.ip /\ inst_ptr + 1 < program_size

(* The load was given more than PROGRAM_INST_CAPACITY instructions, each   *)
(* of them valid: a longer slice, a file of that many whole chunks that    *)
(* all decode, a text of that many "neop" words.                           *)
Oversized ==
    CASE file.path = "memory" -> Len(file.data) > PROGRAM_INST_CAPACITY
      [] file.path = "binary" ->
            /\ Len(file.data) = INST_CHUNCK_SIZE * (PROGRAM_INST_CAPACITY + 1)
            /\ \A i \in 0 .. PROGRAM_INST_CAPACITY :
                  file.data[INST_CHUNCK_SIZE * i + 1] < Len(MainKinds)
      [] file.path = "text" ->
            /\ Len(file.data) = 2 * (PROGRAM_INST_CAPACITY + 1)
            /\ \A i \in 1 .. Len(file.data) : file.data[i] \in {"neop", "\n"}
      [] OTHER -> FALSE

(* C17: a load of more than PROGRAM_INST_CAPACITY instructions returns the *)
(* program-size-overflow fault on every load path: from a slice in memory, *)
(* from a binary file and from source text.                                *)
C17_OversizeLoadFaults ==
    (pc # "init" /\ Oversized) => load_res = "InstLimitkOverflow"

(* C18: the load of a binary file whose length is not a multiple of 10     *)
(* returns a decode fault as a fault value.                                *)
C18_PartialChunkFaults ==
    (pc # "init" /\ file.path = "binary" /\ Len(file.data) % INST_CHUNCK_SIZE # 0)
        => load_res = "InvalidBinaryInstruction"

(* The last iteration executed Jump with an Int operand addr and returned  *)
(* no fault.                                                               *)
JumpTaken ==
    /\ Stepped("Jump") /\ result \in {"none", "Ok"}
    /\ last.inst.operand.tag = "Int"

(* C19: after Jump(addr) with addr below the program length, inst_ptr is   *)
(* addr: the instruction executed next is program[addr], the increment     *)
(* after a step not being applied to a taken jump.                         *)
C19_JumpLandsOnTarget ==
    (JumpTaken /\ last.inst.operand.val < program_size)
        => inst_ptr = last.inst.operand.val

(* C20: Jump(addr) returns a fault and leaves inst_ptr unchanged for every *)
(* addr at or above the program length, addr equal to the program length   *)
(* included.                                                               *)
C20_JumpPastEndFaults ==
    (Stepped("Jump") /\ last.inst.operand.tag = "Int"
        /\ last.inst.operand.val >= program_size)
        => result \in Faults /\ inst_ptr = last.ip

(* The words of the source text the disassembler was given, read apart     *)
(* from parse: a declaration ends in ":", an instruction word is a         *)
(* mnemonic with or without "?".                                           *)
SrcWords == asm.words

IsDecl(w) == w[Len(w)] = ":"

IsInstWord(w) ==
    /\ ~IsDecl(w)
    /\ \/ Kind_try_parse(w).ok
       \/ w[Len(w)] = "?" /\ Kind_try_parse(SubSeq(w, 1, Len(w) - 1)).ok

DeclPositions == {p \in 1 .. Len(SrcWords) : IsDecl(SrcWords[p])}

(* The place in the label table of the declaration at word p.              *)
DeclRank(p) == Cardinality({q \in DeclPositions : q <= p})

InstWordsBefore(p) == Cardinality({q \in 1 .. p - 1 : IsInstWord(SrcWords[q])})

(* C21: every label declaration is recorded in the label table with the    *)
(* number of instruction words, conditional or not, that precede it in the *)
(* source: the program index of the first instruction after it.            *)
C21_LabelAddress ==
    (asm.pc = "done" /\ asm.given = "text")
        => /\ Len(asm.labels) = Cardinality(DeclPositions)
           /\ \A p \in DeclPositions : asm.labels[DeclRank(p)].at = InstWordsBefore(p)

(* A label reference is a word that is no declaration, no instruction and  *)
(* no literal; the operand an instruction keeps is the last operand word   *)
(* written before the next instruction.                                    *)
IsOperandWord(w) == ~IsDecl(w) /\ ~IsInstWord(w)

IsRefWord(w) == IsOperandWord(w) /\ ~Value_try_parse(w).ok

RefPositions == {p \in 1 .. Len(SrcWords) : IsRefWord(SrcWords[p])}

FinalOperand(p) ==
    \A q \in p + 1 .. Len(SrcWords) :
        IsOperandWord(SrcWords[q]) => \E r \in p + 1 .. q - 1 : IsInstWord(SrcWords[r])

EqualDecls(name) == {i \in 1 .. Len(asm.labels) : asm.labels[i].name = name}

FirstEqualDecl(name) == CHOOSE i \in EqualDecls(name) : \A j \in EqualDecls(name) : i <= j

(* C22: when the disassembler returns a program, every label reference     *)
(* names a declared label by an equal name, and the instruction it belongs *)
(* to carries the address recorded for the first label of that name.       *)
C22_LookupByEqualName ==
    (asm.pc = "done" /\ asm.given = "text" /\ asm.err = "Ok")
        => \A p \in RefPositions :
              /\ EqualDecls(SrcWords[p]) # {}
              /\ FinalOperand(p) =>
                    asm.out[InstWordsBefore(p)].operand =
                        UVal("Uint", IsizeWord(asm.labels[FirstEqualDecl(SrcWords[p])].at))

(* What makes a source text faulty whatever the order of its words: an     *)
(* operand word with no instruction before it or after an instruction that *)
(* takes none, an operand-taking instruction left without a word, more     *)
(* instructions than the program holds, a reference that names no label.   *)
InstPositions == {p \in 1 .. Len(SrcWords) : IsInstWord(SrcWords[p])}

OperandPositions == {p \in 1 .. Len(SrcWords) : IsOperandWord(SrcWords[p])}

WordKind(w) ==
    IF Kind_try_parse(w).ok THEN Kind_try_parse(w).kind
    ELSE Kind_try_parse(SubSeq(w, 1, Len(w) - 1)).kind

(* The instruction word an operand word belongs to, 0 when there is none.  *)
Owner(p) ==
    IF \E q \in InstPositions : q < p
    THEN CHOOSE q \in InstPositions : q < p /\ \A r \in InstPositions : r < p => r <= q
    ELSE 0

NothingToAttach == \E p \in OperandPositions : Owner(p) = 0

UnexpectedOperand ==
    \E p \in OperandPositions : Owner(p) # 0 /\ ~has_operand(WordKind(SrcWords[Owner(p)]))

MissingOperand ==
    \E q \in InstPositions :
        has_operand(WordKind(SrcWords[q])) /\ \A p \in OperandPositions : Owner(p) # q

TooManyInstructions == Cardinality(InstPositions) > PROGRAM_INST_CAPACITY

DeclaredAnywhere(name) ==
    \E d \in DeclPositions : SubSeq(SrcWords[d], 1, Len(SrcWords[d]) - 1) = name

WellShaped ==
    /\ ~NothingToAttach /\ ~UnexpectedOperand /\ ~MissingOperand /\ ~TooManyInstructions
    /\ \A p \in RefPositions : DeclaredAnywhere(SrcWords[p])

(* A reference written before every declaration of its name.               *)
ForwardRef(p) ==
    \A d \in DeclPositions :
        SubSeq(SrcWords[d], 1, Len(SrcWords[d]) - 1) = SrcWords[p] => p < d

C24_MissingOperandFaults ==
    (asm.pc = "done" /\ asm.given = "text")
        => /\ asm.err = "Ok" =>
                 \A i \in 1 .. Len(asm.out) :
                     has_operand(asm.out[i].kind) => asm.out[i].operand.tag # "Null"
           /\ MissingOperand => asm.err = "ParseError"

(* C25: a literal or a label reference with no instruction before it, or   *)
(* right after an instruction that takes no operand, is a fault.           *)
C25_StrayOperandFaults ==
    (asm.pc = "done" /\ asm.given = "text" /\ (NothingToAttach \/ UnexpectedOperand))
        => asm.err = "ParseError"

(* A load is made once, on the engine as constructed: no instruction       *)
(* stored and a length of zero.                                            *)
LoadFaulted == load_res \notin {"none", "Ok", "panic"}

(* C26: a load that fails with a fault leaves the engine's stored          *)
(* instructions and its program length as they were before the load.       *)
C26_FailedLoadKeepsProgram ==
    LoadFaulted
        => /\ program_size = 0
           /\ \A i \in 0 .. PROGRAM_INST_CAPACITY - 1 : program[i] = NopInst

(* C27: the duplicate instruction with operand idx pushes a copy of the     *)
(* element idx slots below the top and keeps the rest of the stack, and     *)
(* returns a fault exactly when idx is at or above the stack size (a full   *)
(* stack, which has no room for the copy, is left aside).                   *)
C27_DupFromTop ==
    ((Stepped("Dup") \/ Stepped("DupAt"))
        /\ last.inst.operand.tag = "Int" /\ last.inst.operand.val >= 0)
        => IF last.inst.operand.val >= last.size
           THEN result \in Faults
           ELSE last.size < VM_STACK_CAPACITY
                   => /\ result \in {"none", "Ok"}
                      /\ stack_size = last.size + 1
                      /\ LastStackKept
                      /\ stack[last.size] = last.stack[last.size - 1 - last.inst.operand.val]

(* C28 as stated: Eq on a stack of at least two elements pushes Uint(1)    *)
(* when the top equals the element below it and Uint(0) when they differ.  *)
C28_EqPushesUint ==
    (Stepped("Eq") /\ last.size >= 2 /\ last.size < VM_STACK_CAPACITY)
        => /\ result \in {"none", "Ok"}
           /\ stack_size = last.size + 1
           /\ stack[last.size] = [tag |-> "Uint", val |-> IF LastA = LastB THEN 1 ELSE 0]

(* C28 as amended: Eq on a stack of at least two elements pushes Int(1)    *)
(* when the top equals the element below it and Int(0) when they differ;   *)
(* on a full stack it returns StackOverflow and pushes nothing.            *)
C28_EqPushesInt ==
    (Stepped("Eq") /\ last.size >= 2)
        => IF last.size < VM_STACK_CAPACITY
           THEN /\ result \in {"none", "Ok"}
                /\ stack_size = last.size + 1
                /\ stack[last.size] = IntV(IF LastA = LastB THEN 1 ELSE 0)
           ELSE result = "StackOverflow" /\ stack_size = last.size

C28_Witness ==
    /\ Stepped("Eq") /\ last.size = 2 /\ LastA = IntV(1) /\ LastB = IntV(0)
    /\ stack_size = 3 /\ stack[2] = IntV(0)

(* C29: in every state reached by executing a loaded program the           *)
(* instruction pointer is at least 0 and at most the program length.       *)
C29_InstPtrInRange ==
    (pc \in {"running", "done"} /\ result # "panic")
        => inst_ptr >= 0 /\ inst_ptr <= program_size

(* C30: execute returns after finitely many steps: the number of           *)
(* instructions it has executed is never above the limit L when one is     *)
(* set, nor above the program length when none is, and when the count      *)
(* reaches that number no further instruction is executed and execute      *)
(* returns.                                                                *)
(* The instructions executed so far in the run, one that faulted or        *)
(* panicked included.                                                      *)
Executions == inst_count + (IF result \in {"none", "Ok"} THEN 0 ELSE 1)

RunBound == IF inst_limit.some THEN inst_limit.v ELSE program_size

C30_BoundedRun ==
    /\ (pc \in {"running", "done"}) => Executions <= RunBound
    /\ (pc = "running" /\ inst_count = RunBound) => (~ENABLED Step /\ ENABLED ExecuteReturn)

(* A program that jumps backwards and is stopped by the limit.             *)
C30_Witness ==
    /\ pc = "done" /\ result = "Ok" /\ inst_limit.some
    /\ inst_count = inst_limit.v /\ inst_ptr < program_size
    /\ last.inst.kind = "Jump" /\ last.inst.operand.val < last.ip

(* C31: when a step of Sum, Sub, Mul or Div returns a fault, the stack and *)
(* its size are what they were before the step.                            *)
C31_FaultKeepsStack ==
    \A k \in {"Sum", "Sub", "Mul", "Div"} :
        (Stepped(k) /\ result \in Faults)
            => stack = last.stack /\ stack_size = last.size

(* The stack size after the operands a faulting step had popped are gone.  *)
SizeAfterPops == IF last.size >= 2 THEN last.size - 2 ELSE 0

(* C31 as amended: when a step of Sum, Sub, Mul or Div returns a fault,    *)
(* nothing is pushed and the operands popped before the fault are not put  *)
(* back: up to two elements are gone from the top, their slots are Null,   *)
(* and the elements below them are as they were.                           *)
C31_FaultDropsOperands ==
    \A k \in {"Sum", "Sub", "Mul", "Div"} :
        (Stepped(k) /\ result \in Faults)
            => /\ stack_size = SizeAfterPops
               /\ \A i \in 0 .. VM_STACK_CAPACITY - 1 :
                     stack[i] = IF i < SizeAfterPops \/ i >= last.size THEN last.stack[i] ELSE Null

C31_Witness ==
    /\ Stepped("Sum") /\ last.size = 1 /\ last.stack[0] = IntV(1)
    /\ result = "StackUnderflow" /\ stack_size = 0 /\ stack[0] = Null

(* C32: JumpIf on a stack whose top element is not Null moves inst_ptr to  *)
(* its operand; with Null on top the next instruction is inst_ptr + 1.     *)
C32_JumpIfTakenOnTop ==
    (Stepped("JumpIf") /\ last.size >= 1 /\ last.inst.operand.tag = "Int")
        => /\ result \in {"none", "Ok"}
           /\ inst_ptr = IF LastA # Null THEN last.inst.operand.val ELSE last.ip + 1

(* C33: serialize_into_file writes one chunk of INST_CHUNCK_SIZE bytes per *)
(* loaded instruction, and deserialize_from_file of the written bytes      *)
(* gives a program of the same length with the same instructions.          *)
C33_FileRoundTrip ==
    /\ (pc = "written" /\ file.path = "written")
          => Len(file.out) = INST_CHUNCK_SIZE * program_size
    /\ (pc = "reread")
          => /\ load_res = "Ok"
             /\ program_size = Len(file.data)
             /\ \A i \in 0 .. Len(file.data) - 1 : program[i] = file.data[i + 1]

=============================================================================
